---------------------------- MODULE Spec2Model ----------------------------
(***************************************************************************)
(* ha-display-wake: an MQTT subscriber that, on a "wake" payload, probes   *)
(* the display (idle time, screen power) and ignores the signal, resets    *)
(* the idle timer, or wakes the screen.                                    *)
(*                                                                         *)
(* The model follows src/ha-display-wake/ha-display-wake.py:               *)
(*   - main()'s outer retry loop (connect / loop_forever / the two except  *)
(*     handlers), with the position of the main thread in pc;              *)
(*   - the three paho callbacks, run by loop_forever on the main thread;   *)
(*   - handle_wake(), one step per external call it blocks in (hpc);       *)
(*   - the probe functions of both backends, as functions of the outcome   *)
(*     of the subprocess they run.                                         *)
(* The broker, the network, the probed tools and the operator (SIGINT)     *)
(* are the environment.                                                    *)
(***************************************************************************)
EXTENDS Integers, Sequences, FiniteSets

VARIABLES
    XDG_SESSION_TYPE, \* os.environ: the value of the variable, or "unset"
    SESSION_TYPE,   \* line 39: XDG_SESSION_TYPE, read once at import
    backend,        \* the variant the last probe operation was dispatched to
    config,         \* _config: the loaded configuration (a dict, keys optional)
    pc,             \* where main()'s thread is in the while True loop
    attempt,        \* how the last client.connect() call ended (line 519)
    slept,          \* seconds of time.sleep(10) elapsed (line 527)
    conn,           \* the transport's connection state
    subscribed,     \* client.subscribe(topic) was issued on this connection
    inbox,          \* PUBLISH messages received and not yet given to on_message
    delivered,      \* number of messages the broker has delivered so far
    hpc,            \* the external call handle_wake is blocked in, or "none"
    ev,             \* the message on_message was last called with, and what
                    \* handle_wake observed and decided for it
    calls,          \* every probe operation issued and every warning logged, in
                    \* order, with its message
    intAt,          \* where KeyboardInterrupt was raised, or "none"
    disconnectCalled \* client.disconnect() was called (line 523)

vars == <<XDG_SESSION_TYPE, SESSION_TYPE, backend, config, pc, attempt, slept,
          conn, subscribed, inbox, delivered, hpc, ev, calls, intAt,
          disconnectCalled>>

-----------------------------------------------------------------------------
(* Bounds of the model *)

\* messages the broker delivers in one run
MaxMsgs == 2

-----------------------------------------------------------------------------
(* Program constants *)

\* time.sleep(10) in the except Exception handler
RetryDelay == 10

\* config.get("active_threshold", 30)
DefaultActiveThreshold == 30

\* config.get("screen_timeout", 1200)
DefaultScreenTimeout == 1200

\* int(...) // 1000: milliseconds to seconds
MsPerSecond == 1000


-----------------------------------------------------------------------------
(* Configuration (lines 245-254, 274-282, 434-435) *)

Topic == "ha-display-wake/office/command"

\* The dict load_config() returns.  "topic" is required by main(); the two
\* thresholds are read with config.get(key, default), so either may be
\* absent.  run_setup() stores int(prompt(...)) unvalidated: any integer,
\* negative ones included.
Configs ==
    { [topic |-> Topic, active_threshold |-> t, screen_timeout |-> 600] :
          t \in {-1, 0, 2} }
    \cup { [topic |-> Topic, active_threshold |-> 2], [topic |-> Topic] }

\* config.get(key, default)
ConfigGet(c, key, default) == IF key \in DOMAIN c THEN c[key] ELSE default

\* line 434
active_threshold == ConfigGet(config, "active_threshold", DefaultActiveThreshold)

\* line 435 (read by handle_wake and never used after)
screen_timeout == ConfigGet(config, "screen_timeout", DefaultScreenTimeout)

\* Values XDG_SESSION_TYPE takes; an unset variable reads as "x11" (line 39)
SessionTypes == {"x11", "wayland", "tty"}

\* what os.environ may hold for XDG_SESSION_TYPE when the module is imported:
\* nothing, "wayland", or a value that names neither backend (an explicit
\* "x11" gives the same SESSION_TYPE as the unset variable)
Environ == (SessionTypes \ {"x11"}) \cup {"unset"}

\* line 39: os.environ.get("XDG_SESSION_TYPE", "x11")
os_environ_get(value, default) == IF value = "unset" THEN default ELSE value

-----------------------------------------------------------------------------
(* Payload decoding (line 472).  A payload is a sequence of bytes, one     *)
(* string per byte; "xFF" is a byte that is not valid UTF-8.               *)

\* characters str.strip() removes
Whitespace == {" ", "\t", "\n"}

\* bytes.decode("utf-8", errors="replace"): a malformed byte becomes U+FFFD
decode(bytes) ==
    [i \in 1..Len(bytes) |-> IF bytes[i] = "xFF" THEN "uFFFD" ELSE bytes[i]]

RECURSIVE lstrip(_)
lstrip(s) ==
    IF s # <<>> /\ Head(s) \in Whitespace THEN lstrip(Tail(s)) ELSE s

RECURSIVE rstrip(_)
rstrip(s) ==
    IF s # <<>> /\ s[Len(s)] \in Whitespace
    THEN rstrip(SubSeq(s, 1, Len(s) - 1))
    ELSE s

\* str.strip()
strip(s) == rstrip(lstrip(s))

\* the literal "wake" of line 473
WakeLiteral == <<"w", "a", "k", "e">>

\* a plausible slip: the payload compared without .strip()
PayloadIsWake_nostrip(bytes) == decode(bytes) = WakeLiteral

\* lines 472-473: payload = msg.payload.decode(...).strip(); payload == "wake"
PayloadIsWake(bytes) == strip(decode(bytes)) = WakeLiteral

\* Payloads the broker may deliver
Payloads ==
    { <<"w", "a", "k", "e">>,                       \* "wake"
      <<" ", "w", "a", "k", "e", "\n">>,            \* " wake\n"
      <<"W", "a", "k", "e">>,                       \* "Wake"
      <<"w", "a", "k", "e", " ", "n", "o", "w">>,   \* "wake now"
      <<"xFF", "w", "a", "k", "e">>,                \* a malformed byte, then "wake"
      <<>> }                                        \* empty

-----------------------------------------------------------------------------
(* Outcomes of the external calls.  subprocess.run either raises           *)
(* (TimeoutExpired after 5 s, FileNotFoundError, ...) or returns the       *)
(* tool's stdout, of which `kind` says what it holds.                      *)

\* no call made yet
NoIdleOut  == [exc |-> FALSE, kind |-> "none", ms |-> 0]
NoPowerOut == [exc |-> FALSE, kind |-> "none", word |-> ""]

\* idle times, in milliseconds, the tools may report
IdleMs == {0, 1999, 2000, 29999, 30000}

\* xprintidle: a decimal number of milliseconds, or something else
X11IdleOuts ==
    { [exc |-> TRUE,  kind |-> "raised", ms |-> 0],
      [exc |-> FALSE, kind |-> "junk",   ms |-> 0] }
    \cup { [exc |-> FALSE, kind |-> "decimal", ms |-> n] : n \in IdleMs }

\* dbus-send ... GetIdletime: a reply holding "uint64 <ms>", or something else
WaylandIdleOuts ==
    { [exc |-> TRUE,  kind |-> "raised", ms |-> 0],
      [exc |-> FALSE, kind |-> "junk",   ms |-> 0] }
    \cup { [exc |-> FALSE, kind |-> "uint64", ms |-> n] : n \in IdleMs }

\* xset q: output holding "Monitor is <word>", or not
X11PowerOuts ==
    { [exc |-> TRUE,  kind |-> "raised", word |-> ""],
      [exc |-> FALSE, kind |-> "junk",   word |-> ""] }
    \cup { [exc |-> FALSE, kind |-> "monitor", word |-> w] :
               w \in {"On", "Off", "Standby"} }

\* dbus-send ... GetActive: a reply holding "boolean true" / "boolean false"
WaylandPowerOuts ==
    { [exc |-> TRUE,  kind |-> "raised", word |-> ""],
      [exc |-> FALSE, kind |-> "junk",   word |-> ""] }
    \cup { [exc |-> FALSE, kind |-> "boolean", word |-> w] :
               w \in {"true", "false"} }

\* a mutating call (xset s reset, xset dpms force on, dbus-send) returns or raises
MutatorOuts == {"returned", "raised"}

-----------------------------------------------------------------------------
(* Display functions (lines 287-427) *)

\* a plausible slip: a failed query read as a long idle time
get_idle_seconds_x11_failidle(r) ==
    IF r.exc THEN DefaultScreenTimeout
    ELSE IF r.kind = "decimal" THEN r.ms \div MsPerSecond
    ELSE DefaultScreenTimeout

\* lines 287-295
get_idle_seconds_x11(r) ==
    IF r.exc THEN 0                                  \* except Exception
    ELSE IF r.kind = "decimal" THEN r.ms \div MsPerSecond
    ELSE 0                                           \* int() raised ValueError

\* a plausible slip: a failed query read as "not On", i.e. screen off
is_screen_off_x11_failopen(r) ==
    IF r.exc THEN TRUE
    ELSE IF r.kind = "monitor" THEN r.word # "On"
    ELSE TRUE

\* lines 298-309
is_screen_off_x11(r) ==
    IF r.exc THEN FALSE                              \* except Exception
    ELSE IF r.kind = "monitor" THEN r.word # "On"    \* match.group(1) != "On"
    ELSE FALSE                                       \* no match

\* lines 332-349
get_idle_seconds_wayland(r) ==
    IF r.exc THEN 0
    ELSE IF r.kind = "uint64" THEN r.ms \div MsPerSecond
    ELSE 0

\* lines 352-366
is_screen_off_wayland(r) ==
    IF r.exc THEN FALSE
    ELSE r.kind = "boolean" /\ r.word = "true"       \* "boolean true" in stdout

\* line 405: the variant get_idle_seconds() dispatches to
IdleVariant == IF SESSION_TYPE = "wayland" THEN "wayland" ELSE "x11"

\* line 411: the variant is_screen_off() dispatches to
PowerVariant == IF SESSION_TYPE = "wayland" THEN "wayland" ELSE "x11"

\* a plausible slip: the test of line 151 (SESSION_TYPE != "x11") used for
\* the dispatch, so that an unknown session type goes to Variant B
ResetVariant_notx11 == IF SESSION_TYPE # "x11" THEN "wayland" ELSE "x11"

\* line 417: the variant reset_idle_timer() dispatches to
ResetVariant == IF SESSION_TYPE = "wayland" THEN "wayland" ELSE "x11"

\* line 424: the variant wake_screen() dispatches to
WakeVariant == IF SESSION_TYPE = "wayland" THEN "wayland" ELSE "x11"

\* lines 404-407
get_idle_seconds(r) ==
    IF IdleVariant = "wayland"
    THEN get_idle_seconds_wayland(r)
    ELSE get_idle_seconds_x11(r)

\* lines 410-413
is_screen_off(r) ==
    IF PowerVariant = "wayland"
    THEN is_screen_off_wayland(r)
    ELSE is_screen_off_x11(r)

\* what the idle-query tool of the active backend may answer
IdleOuts == IF IdleVariant = "wayland" THEN WaylandIdleOuts ELSE X11IdleOuts

\* what the power-query tool of the active backend may answer
PowerOuts == IF PowerVariant = "wayland" THEN WaylandPowerOuts ELSE X11PowerOuts


-----------------------------------------------------------------------------
(* State *)

\* ev before on_message has been called
NoEvent ==
    [id |-> 0, payload |-> <<>>, idleOut |-> NoIdleOut, idle |-> 0,
     powerOut |-> NoPowerOut, off |-> FALSE, action |-> "None",
     warned |-> FALSE, warnings |-> 0]

\* Module import and main() up to the while loop (lines 39, 484-515)
Init ==
    /\ XDG_SESSION_TYPE \in Environ
    /\ SESSION_TYPE = os_environ_get(XDG_SESSION_TYPE, "x11")
    /\ backend = "none"
    /\ config \in Configs
    /\ pc = "connect"
    /\ attempt = "none"
    /\ slept = 0
    /\ conn = "closed"
    /\ subscribed = FALSE
    /\ inbox = <<>>
    /\ delivered = 0
    /\ hpc = "none"
    /\ ev = NoEvent
    /\ calls = <<>>
    /\ intAt = "none"
    /\ disconnectCalled = FALSE

\* one entry of the call log
Call(m, o) == [msg |-> m, op |-> o]

-----------------------------------------------------------------------------
(* main(): the outer retry loop (lines 517-527) *)

\* line 519: client.connect() returns; line 520: loop_forever() is entered
ConnectOk ==
    /\ pc = "connect"
    /\ pc' = "loop"
    /\ attempt' = "ok"
    /\ conn' = "awaiting_connack"
    /\ slept' = 0
    /\ UNCHANGED <<XDG_SESSION_TYPE, SESSION_TYPE, backend, config,
                   subscribed, inbox, delivered, hpc, ev,
                   calls, intAt, disconnectCalled>>

\* a plausible slip: the handler retries at once, without time.sleep(10)
ConnectFail_nosleep ==
    /\ pc = "connect"
    /\ pc' = "connect"
    /\ attempt' = "failed"
    /\ conn' = "closed"
    /\ slept' = 0
    /\ UNCHANGED <<XDG_SESSION_TYPE, SESSION_TYPE, backend, config,
                   subscribed, inbox, delivered, hpc, ev,
                   calls, intAt, disconnectCalled>>

\* a plausible slip: a handler too narrow for the error connect() raises
ConnectFail_uncaught ==
    /\ pc = "connect"
    /\ pc' = "uncaught"
    /\ attempt' = "failed"
    /\ conn' = "closed"
    /\ slept' = 0
    /\ UNCHANGED <<XDG_SESSION_TYPE, SESSION_TYPE, backend, config,
                   subscribed, inbox, delivered, hpc, ev,
                   calls, intAt, disconnectCalled>>

\* line 519 raises (OSError, gaierror, ...); lines 525-527: the handler logs
\* and enters time.sleep(10)
ConnectFail ==
    /\ pc = "connect"
    /\ pc' = "retry_wait"
    /\ attempt' = "failed"
    /\ conn' = "closed"
    /\ slept' = 0
    /\ UNCHANGED <<XDG_SESSION_TYPE, SESSION_TYPE, backend, config,
                   subscribed, inbox, delivered, hpc, ev,
                   calls, intAt, disconnectCalled>>

\* line 527: one second of time.sleep(10) passes
RetryTick ==
    /\ pc = "retry_wait"
    /\ slept < RetryDelay
    /\ slept' = slept + 1
    /\ UNCHANGED <<XDG_SESSION_TYPE, SESSION_TYPE, backend, config, attempt,
                   pc, conn, subscribed, inbox, delivered,
                   hpc, ev, calls, intAt, disconnectCalled>>

\* line 527: time.sleep(10) returns; line 517: the loop starts over at connect
RetrySleepReturn ==
    /\ pc = "retry_wait"
    /\ slept = RetryDelay
    /\ pc' = "connect"
    /\ UNCHANGED <<XDG_SESSION_TYPE, SESSION_TYPE, backend, config, attempt,
                   slept, conn, subscribed, inbox,
                   delivered, hpc, ev, calls, intAt, disconnectCalled>>

\* where the main thread is when the signal arrives
Position == IF hpc # "none" THEN hpc ELSE pc

\* a plausible slip: a bare except in the probe functions, which swallows
\* the KeyboardInterrupt and lets the evaluation go on
KeyboardInterruptInTry_caught ==
    /\ pc \in {"connect", "loop"}
    /\ intAt = "none"
    /\ intAt' = Position
    /\ UNCHANGED <<XDG_SESSION_TYPE, SESSION_TYPE, backend, config, attempt,
                   pc, slept, conn, subscribed,
                   inbox, delivered, hpc, ev, calls, disconnectCalled>>

\* SIGINT while the main thread is inside the try block (lines 518-520):
\* KeyboardInterrupt is not an Exception, so no probe function catches it;
\* it unwinds handle_wake, on_message and loop_forever to line 521
KeyboardInterruptInTry ==
    /\ pc \in {"connect", "loop"}
    /\ intAt' = Position
    /\ hpc' = "none"
    /\ pc' = "shutdown"
    /\ UNCHANGED <<XDG_SESSION_TYPE, SESSION_TYPE, backend, config, attempt,
                   slept, conn, subscribed, inbox,
                   delivered, ev, calls, disconnectCalled>>

\* SIGINT during time.sleep(10): line 527 is inside the except Exception
\* handler, outside the try block, so nothing in main() catches it
KeyboardInterruptInSleep ==
    /\ pc = "retry_wait"
    /\ intAt' = "retry_wait"
    /\ pc' = "uncaught"
    /\ UNCHANGED <<XDG_SESSION_TYPE, SESSION_TYPE, backend, config, attempt,
                   slept, conn, subscribed, inbox,
                   delivered, hpc, ev, calls, disconnectCalled>>

\* lines 521-524: log, client.disconnect(), break
Shutdown ==
    /\ pc = "shutdown"
    /\ disconnectCalled' = TRUE
    /\ conn' = "closed"
    /\ subscribed' = FALSE
    /\ pc' = "done"
    /\ UNCHANGED <<XDG_SESSION_TYPE, SESSION_TYPE, backend, config, attempt,
                   slept, inbox, delivered, hpc, ev, calls,
                   intAt>>

-----------------------------------------------------------------------------
(* loop_forever(): the transport and the callbacks it runs (line 520) *)

\* a plausible slip: callbacks dispatched without waiting for the running one
LoopIdle_reentrant == TRUE

\* loop_forever reads the socket and runs callbacks on the calling thread:
\* it does nothing while a callback has not returned
LoopIdle == hpc = "none"

\* CONNACK return codes: accepted, refused (not authorised)
ConnackCodes == {0, 5}

\* a plausible slip: no subscribe in the callback (subscribing once, after
\* client.connect(), is lost with the first reconnect)
on_connect_nosubscribe ==
    /\ pc = "loop" /\ LoopIdle
    /\ conn = "awaiting_connack"
    /\ \E rc \in ConnackCodes :
          conn' = IF rc = 0 THEN "connected" ELSE "lost"
    /\ UNCHANGED <<XDG_SESSION_TYPE, SESSION_TYPE, backend, config, attempt,
                   pc, slept, subscribed, inbox,
                   delivered, hpc, ev, calls, intAt, disconnectCalled>>

\* lines 459-464
on_connect ==
    /\ pc = "loop" /\ LoopIdle
    /\ conn = "awaiting_connack"
    /\ \E rc \in ConnackCodes :
          IF rc = 0
          THEN /\ conn' = "connected"
               /\ subscribed' = TRUE          \* client.subscribe(topic)
          ELSE /\ conn' = "lost"              \* the broker closes the socket
               /\ subscribed' = subscribed
    /\ UNCHANGED <<XDG_SESSION_TYPE, SESSION_TYPE, backend, config, attempt,
                   pc, slept, inbox, delivered, hpc, ev,
                   calls, intAt, disconnectCalled>>

\* a plausible slip: the callback raises, loop_forever is left through the
\* except Exception handler and the outer loop starts its 10-second wait
on_disconnect_redrive ==
    /\ pc = "loop" /\ LoopIdle
    /\ conn \in {"awaiting_connack", "connected"}
    /\ conn' = "lost"
    /\ subscribed' = FALSE
    /\ inbox' = <<>>
    /\ pc' = "retry_wait"
    /\ slept' = 0
    /\ UNCHANGED <<XDG_SESSION_TYPE, SESSION_TYPE, backend, config, attempt,
                   delivered, hpc, ev, calls,
                   intAt, disconnectCalled>>

\* lines 467-468: the connection dropped; the callback only logs.  Unread
\* messages go with the socket, the subscription with the session.
on_disconnect ==
    /\ pc = "loop" /\ LoopIdle
    /\ conn \in {"awaiting_connack", "connected"}
    /\ conn' = "lost"
    /\ subscribed' = FALSE
    /\ inbox' = <<>>
    /\ UNCHANGED <<XDG_SESSION_TYPE, SESSION_TYPE, backend, config, attempt,
                   pc, slept, delivered, hpc, ev, calls,
                   intAt, disconnectCalled>>

\* line 515: after its reconnect delay the transport reconnects by itself,
\* inside loop_forever (a failed attempt leaves the state as it is)
TransportReconnect ==
    /\ pc = "loop" /\ LoopIdle
    /\ conn = "lost"
    /\ conn' = "awaiting_connack"
    /\ UNCHANGED <<XDG_SESSION_TYPE, SESSION_TYPE, backend, config, attempt,
                   pc, slept, subscribed, inbox, delivered,
                   hpc, ev, calls, intAt, disconnectCalled>>

\* the broker publishes on the subscribed topic; the message waits in the
\* socket until loop_forever reads it
MessageArrive ==
    /\ pc = "loop"
    /\ conn = "connected" /\ subscribed
    /\ delivered < MaxMsgs
    /\ \E p \in Payloads :
          inbox' = Append(inbox, [id |-> delivered + 1, payload |-> p])
    /\ delivered' = delivered + 1
    /\ UNCHANGED <<XDG_SESSION_TYPE, SESSION_TYPE, backend, config, attempt,
                   pc, slept, conn, subscribed, hpc, ev,
                   calls, intAt, disconnectCalled>>

\* the message loop_forever reads next
NextMessage(q) == Head(q)

\* a plausible slip: the last decision kept in a module-level variable and
\* reused for the next matched message instead of querying again
on_message_cached ==
    /\ pc = "loop" /\ LoopIdle
    /\ inbox # <<>>
    /\ LET m == NextMessage(inbox) IN
          IF PayloadIsWake(m.payload) /\ ev.action # "None"
          THEN /\ ev' = [ev EXCEPT !.id = m.id, !.payload = m.payload]
               /\ hpc' = "none"
               /\ calls' = calls
               /\ backend' = backend
          ELSE /\ ev' = [NoEvent EXCEPT !.id = m.id, !.payload = m.payload]
               /\ IF PayloadIsWake(m.payload)
                  THEN /\ hpc' = "idle_query"
                       /\ calls' = Append(calls, Call(m.id, "idle_query"))
                       /\ backend' = IdleVariant
                  ELSE /\ hpc' = "none"
                       /\ calls' = calls
                       /\ backend' = backend
    /\ inbox' = Tail(inbox)
    /\ UNCHANGED <<XDG_SESSION_TYPE, SESSION_TYPE, config, attempt, pc,
                   slept, conn, subscribed, delivered,
                   intAt, disconnectCalled>>

\* lines 471-474, and handle_wake up to its first external call (437)
on_message ==
    /\ pc = "loop" /\ LoopIdle
    /\ inbox # <<>>
    /\ LET m == NextMessage(inbox) IN
          /\ ev' = [NoEvent EXCEPT !.id = m.id, !.payload = m.payload]
          /\ IF PayloadIsWake(m.payload)
             THEN /\ hpc' = "idle_query"
                  /\ calls' = Append(calls, Call(m.id, "idle_query"))
                  /\ backend' = IdleVariant
             ELSE /\ hpc' = "none"
                  /\ calls' = calls
                  /\ backend' = backend
    /\ inbox' = Tail(inbox)
    /\ UNCHANGED <<XDG_SESSION_TYPE, SESSION_TYPE, config, attempt, pc,
                   slept, conn, subscribed, delivered,
                   intAt, disconnectCalled>>

-----------------------------------------------------------------------------
(* handle_wake (lines 432-451) *)

\* a plausible slip: the comparison of line 440 the wrong way round
Tier1Active_swapped(idle, threshold) == idle > threshold

\* a plausible slip: <= for <, so that the boundary counts as active
Tier1Active_le(idle, threshold) == idle <= threshold

\* line 440: if idle < active_threshold
Tier1Active(idle, threshold) == idle < threshold

\* a plausible slip: the test of line 444 inverted
Tier3ScreenOff_inverted(off) == ~off

\* line 444: if is_screen_off()
Tier3ScreenOff(off) == off

\* lines 423-427: the first external call of wake_screen()
WakeScreenCall == IF WakeVariant = "wayland" THEN "set_active" ELSE "force_on"

\* a plausible slip: both probes queried up front, the power query issued
\* before the idle time is compared with the threshold
IdleQueryReturn_eager ==
    /\ pc = "loop" /\ hpc = "idle_query"
    /\ \E r \in IdleOuts :
          /\ ev' = [ev EXCEPT !.idleOut = r, !.idle = get_idle_seconds(r)]
          /\ hpc' = "power_query"
          /\ calls' = Append(calls, Call(ev.id, "power_query"))
          /\ backend' = PowerVariant
    /\ UNCHANGED <<XDG_SESSION_TYPE, SESSION_TYPE, config, attempt, pc,
                   slept, conn, subscribed, inbox,
                   delivered, intAt, disconnectCalled>>

\* line 437 returns; line 440 decides; line 444 issues the power query
IdleQueryReturn ==
    /\ pc = "loop" /\ hpc = "idle_query"
    /\ \E r \in IdleOuts :
          LET idle == get_idle_seconds(r) IN
          IF Tier1Active(idle, active_threshold)
          THEN /\ ev' = [ev EXCEPT !.idleOut = r, !.idle = idle,
                                   !.action = "Ignore"]
               /\ hpc' = "none"
               /\ calls' = Append(calls, Call(ev.id, "return"))
               /\ backend' = backend
          ELSE /\ ev' = [ev EXCEPT !.idleOut = r, !.idle = idle]
               /\ hpc' = "power_query"
               /\ calls' = Append(calls, Call(ev.id, "power_query"))
               /\ backend' = PowerVariant
    /\ UNCHANGED <<XDG_SESSION_TYPE, SESSION_TYPE, config, attempt, pc,
                   slept, conn, subscribed, inbox,
                   delivered, intAt, disconnectCalled>>

\* line 444 returns; lines 445-446 call wake_screen(), or 450-451
\* reset_idle_timer()
PowerQueryReturn ==
    /\ pc = "loop" /\ hpc = "power_query"
    /\ \E r \in PowerOuts :
          LET off == is_screen_off(r) IN
          IF Tier3ScreenOff(off)
          THEN /\ ev' = [ev EXCEPT !.powerOut = r, !.off = off,
                                   !.action = "Wake"]
               /\ hpc' = WakeScreenCall
               /\ calls' = Append(calls, Call(ev.id, WakeScreenCall))
               /\ backend' = WakeVariant
          ELSE /\ ev' = [ev EXCEPT !.powerOut = r, !.off = off,
                                   !.action = "ResetIdleTimer"]
               /\ hpc' = "reset"
               /\ calls' = Append(calls, Call(ev.id, "reset"))
               /\ backend' = ResetVariant
    /\ UNCHANGED <<XDG_SESSION_TYPE, SESSION_TYPE, config, attempt, pc,
                   slept, conn, subscribed, inbox,
                   delivered, intAt, disconnectCalled>>

\* the event after a mutating call ended with outcome o: except Exception
\* logs a warning (lines 316-317, 324-325, 381-382, 398-399)
AfterMutator(o) ==
    IF o = "raised"
    THEN [ev EXCEPT !.warned = TRUE, !.warnings = ev.warnings + 1]
    ELSE ev

\* a plausible slip: reset_idle_timer_x11() called inside the try block, so
\* that a failed force-on skips it
ForceOnReturn_resetintry ==
    /\ pc = "loop" /\ hpc = "force_on"
    /\ \E o \in MutatorOuts :
          /\ ev' = AfterMutator(o)
          /\ IF o = "raised"
             THEN /\ hpc' = "none"
                  /\ calls' = Append(calls, Call(ev.id, "return"))
                  /\ backend' = backend
             ELSE /\ hpc' = "reset"
                  /\ calls' = Append(calls, Call(ev.id, "reset"))
                  /\ backend' = "x11"
    /\ UNCHANGED <<XDG_SESSION_TYPE, SESSION_TYPE, config, attempt, pc,
                   slept, conn, subscribed, inbox,
                   delivered, intAt, disconnectCalled>>

\* wake_screen_x11, lines 322-327: xset dpms force on returns or raises (a
\* warning is logged), then reset_idle_timer_x11() is called
ForceOnReturn ==
    /\ pc = "loop" /\ hpc = "force_on"
    /\ \E o \in MutatorOuts :
          /\ ev' = AfterMutator(o)
          /\ calls' = Append(calls, Call(ev.id, "reset"))
    /\ hpc' = "reset"
    /\ backend' = "x11"                 \* line 327: reset_idle_timer_x11()
    /\ UNCHANGED <<XDG_SESSION_TYPE, SESSION_TYPE, config, attempt, pc,
                   slept, conn, subscribed, inbox,
                   delivered, intAt, disconnectCalled>>

\* a plausible slip: a failed reset tried once more
ResetReturn_retry ==
    /\ pc = "loop" /\ hpc = "reset"
    /\ \E o \in MutatorOuts :
          /\ ev' = AfterMutator(o)
          /\ IF o = "raised" /\ ~ev.warned
             THEN /\ hpc' = "reset"
                  /\ calls' = Append(calls, Call(ev.id, "reset"))
             ELSE /\ hpc' = "none"
                  /\ calls' = Append(calls, Call(ev.id, "return"))
    /\ UNCHANGED <<XDG_SESSION_TYPE, SESSION_TYPE, backend, config, attempt,
                   pc, slept, conn, subscribed, inbox,
                   delivered, intAt, disconnectCalled>>

\* reset_idle_timer_x11 / _wayland, lines 312-317 and 369-382: the call
\* returns or raises (a warning is logged); handle_wake returns
ResetReturn ==
    /\ pc = "loop" /\ hpc = "reset"
    /\ \E o \in MutatorOuts :
          /\ ev' = AfterMutator(o)
          /\ calls' = Append(calls, Call(ev.id, "return"))
    /\ hpc' = "none"
    /\ UNCHANGED <<XDG_SESSION_TYPE, SESSION_TYPE, backend, config, attempt,
                   pc, slept, conn, subscribed, inbox,
                   delivered, intAt, disconnectCalled>>

\* wake_screen_wayland, lines 385-399: SetActive(false) returns or raises
\* (a warning is logged); handle_wake returns
SetActiveReturn ==
    /\ pc = "loop" /\ hpc = "set_active"
    /\ \E o \in MutatorOuts :
          /\ ev' = AfterMutator(o)
          /\ calls' = Append(calls, Call(ev.id, "return"))
    /\ hpc' = "none"
    /\ UNCHANGED <<XDG_SESSION_TYPE, SESSION_TYPE, backend, config, attempt,
                   pc, slept, conn, subscribed, inbox,
                   delivered, intAt, disconnectCalled>>

-----------------------------------------------------------------------------
(* Specifications *)

Next ==
    \/ ConnectOk
    \/ ConnectFail
    \/ RetryTick
    \/ RetrySleepReturn
    \/ KeyboardInterruptInTry
    \/ KeyboardInterruptInSleep
    \/ Shutdown
    \/ on_connect
    \/ on_disconnect
    \/ TransportReconnect
    \/ MessageArrive
    \/ on_message
    \/ IdleQueryReturn
    \/ PowerQueryReturn
    \/ ForceOnReturn
    \/ ResetReturn
    \/ SetActiveReturn

Spec == Init /\ [][Next]_vars

\* time passes and a blocked call returns: the retry wait ends and the next
\* connect attempt is made.  The operator and the network owe nothing.
FairSpec ==
    Spec /\ WF_vars(RetryTick) /\ WF_vars(RetrySleepReturn)


-----------------------------------------------------------------------------
(* Properties.  ev is the wake event under evaluation (or the last one     *)
(* evaluated); calls is the log of operations issued.                      *)

\* how many times operation o was issued for message m
Issued(m, o) ==
    Cardinality({i \in 1..Len(calls) : calls[i].msg = m /\ calls[i].op = o})

\* calls to wake_screen() for message m, in either backend
WakesIssued(m) == Issued(m, "force_on") + Issued(m, "set_active")

\* on_message has been called with a message
EventSeen == ev.id # 0

\* the idle query / the power query of the event has returned
IdleKnown == ev.idleOut.kind # "none"
PowerKnown == ev.powerOut.kind # "none"

\* the query's dependency failed, timed out, or answered without the token
IdleQueryFailed == ev.idleOut.exc \/ ev.idleOut.kind = "junk"
PowerQueryFailed == ev.powerOut.exc \/ ev.powerOut.kind = "junk"

\* C1 (active-tier dominance): a wake event whose idle query yielded
\* idleSeconds < active_threshold is ignored: handle_wake has returned, and
\* neither reset_idle_timer nor wake_screen was invoked for it.
C1_ActiveTierDominance ==
    (IdleKnown /\ ev.idle < active_threshold) =>
        /\ ev.action = "Ignore"
        /\ hpc = "none"
        /\ Issued(ev.id, "reset") = 0
        /\ WakesIssued(ev.id) = 0

\* an event one truncated second short of the threshold was ignored
C1_Witness ==
    /\ IdleKnown /\ ~IdleQueryFailed
    /\ ev.idleOut.ms = 1999 /\ ev.idle = 1 /\ active_threshold = 2
    /\ ev.action = "Ignore"

\* C2 (wake correctness, strict boundary): a wake event with idleSeconds >=
\* active_threshold, the boundary idleSeconds = active_threshold included, is
\* never ignored: the power query is issued; and if that reports the screen
\* off, the action is Wake: wake_screen is invoked.
C2_WakeCorrectness ==
    /\ (IdleKnown /\ ev.idle >= active_threshold) =>
          /\ ev.action # "Ignore"
          /\ Issued(ev.id, "power_query") = 1
    /\ (IdleKnown /\ ev.idle >= active_threshold /\ PowerKnown /\ ev.off) =>
          /\ ev.action = "Wake"
          /\ WakesIssued(ev.id) = 1

\* an event exactly at the threshold, screen off, woke the display
C2_Witness ==
    /\ PowerKnown /\ ev.off
    /\ active_threshold > 0 /\ ev.idle = active_threshold
    /\ ev.action = "Wake" /\ WakesIssued(ev.id) = 1

\* C3 (silent reset): a wake event with idleSeconds >= active_threshold and
\* the screen reported on resets the idle timer: reset_idle_timer is invoked
\* exactly once and wake_screen never.
C3_SilentReset ==
    (IdleKnown /\ ev.idle >= active_threshold /\ PowerKnown /\ ~ev.off) =>
        /\ ev.action = "ResetIdleTimer"
        /\ Issued(ev.id, "reset") = 1
        /\ WakesIssued(ev.id) = 0

\* scenario 4: threshold 30, idle 30 s, screen on: reset once, handler returned
C3_Witness ==
    /\ active_threshold = 30 /\ IdleKnown /\ ev.idle = 30
    /\ PowerKnown /\ ~PowerQueryFailed /\ ~ev.off
    /\ hpc = "none" /\ Issued(ev.id, "return") = 1
    /\ Issued(ev.id, "reset") = 1 /\ WakesIssued(ev.id) = 0

\* payload p is "wake" between two runs of whitespace, and nothing else
IsPaddedWake(p) ==
    \E a \in 0..Len(p) :
        /\ a + 4 <= Len(p)
        /\ p[a + 1] = "w" /\ p[a + 2] = "a" /\ p[a + 3] = "k" /\ p[a + 4] = "e"
        /\ \A k \in 1..Len(p) :
              (k <= a \/ k > a + 4) => p[k] \in {" ", "\t", "\n"}

\* C4 (payload strictness): handle_wake runs for a message if and only if its
\* payload is "wake" up to surrounding whitespace; for any other payload no
\* probe operation is invoked and no action is produced.
C4_PayloadStrictness ==
    EventSeen =>
        /\ IsPaddedWake(ev.payload) <=> Issued(ev.id, "idle_query") = 1
        /\ ~IsPaddedWake(ev.payload) =>
              /\ \A i \in 1..Len(calls) : calls[i].msg # ev.id
              /\ ev.action = "None"
              /\ hpc = "none"

\* " wake\n" started an evaluation
C4_Witness ==
    /\ EventSeen
    /\ ev.payload = <<" ", "w", "a", "k", "e", "\n">>
    /\ Issued(ev.id, "idle_query") = 1


\* the evaluation went past the active tier: the power query was issued
FellThrough == Issued(ev.id, "power_query") > 0

\* C5 as stated (fail-safe idle query): a failed idle query yields 0; with
\* active_threshold > 0 the event is ignored (no power query, no reset, no
\* wake); and evaluation falls through to the other tiers only when
\* active_threshold is 0.
C5_AsStated ==
    (IdleKnown /\ IdleQueryFailed) =>
        /\ ev.idle = 0
        /\ active_threshold > 0 =>
              /\ ev.action = "Ignore"
              /\ hpc = "none"
              /\ ~FellThrough
              /\ Issued(ev.id, "reset") = 0
              /\ WakesIssued(ev.id) = 0
        /\ FellThrough => active_threshold = 0

\* C5 amended (fail-safe idle query): a failed idle query yields 0; with
\* active_threshold > 0 the event is ignored (no power query, no reset, no
\* wake); and evaluation falls through to the other tiers exactly when
\* active_threshold is 0 or negative.
C5_FailSafeIdle ==
    (IdleKnown /\ IdleQueryFailed) =>
        /\ ev.idle = 0
        /\ active_threshold > 0 =>
              /\ ev.action = "Ignore"
              /\ hpc = "none"
              /\ ~FellThrough
              /\ Issued(ev.id, "reset") = 0
              /\ WakesIssued(ev.id) = 0
        /\ FellThrough <=> active_threshold <= 0

\* the idle query raised, the threshold is positive, the event was ignored
C5_Witness ==
    /\ IdleKnown /\ ev.idleOut.exc
    /\ active_threshold > 0
    /\ ev.action = "Ignore" /\ ~FellThrough

\* C6 (fail-safe power query): a failed power query reads as screen on, so
\* the event never invokes wake_screen; it invokes reset_idle_timer.
C6_FailSafePower ==
    (PowerKnown /\ PowerQueryFailed) =>
        /\ ~ev.off
        /\ WakesIssued(ev.id) = 0
        /\ ev.action = "ResetIdleTimer"
        /\ Issued(ev.id, "reset") = 1

\* the power query raised; the event ended with one reset and no wake
C6_Witness ==
    /\ PowerKnown /\ ev.powerOut.exc
    /\ hpc = "none" /\ Issued(ev.id, "return") = 1
    /\ Issued(ev.id, "reset") = 1 /\ WakesIssued(ev.id) = 0

\* C7 (serialization): the operations of different messages never interleave
\* in the call log: where the log passes from one message to another, the
\* first evaluation has returned, the second begins with its idle query, and
\* the second message arrived later; an evaluation begins only when the one
\* before it has returned; the call in flight belongs to the latest event;
\* and the messages still waiting arrived after it, in arrival order.
C7_Serialization ==
    /\ \A i \in 1..(Len(calls) - 1) :
          /\ calls[i].msg # calls[i + 1].msg =>
                /\ calls[i].op = "return"
                /\ calls[i].msg < calls[i + 1].msg
          /\ calls[i + 1].op = "idle_query" => calls[i].op = "return"
    /\ hpc # "none" =>
          /\ calls # <<>>
          /\ calls[Len(calls)] = [msg |-> ev.id, op |-> hpc]
    /\ \A i \in 1..Len(inbox) :
          /\ inbox[i].id > ev.id
          /\ \A j \in 1..Len(inbox) : i < j => inbox[i].id < inbox[j].id

\* a second wake message waited while the first was being evaluated, and is
\* now being evaluated itself
C7_Witness ==
    /\ hpc # "none" /\ ev.id = 2
    /\ Issued(1, "power_query") = 1 /\ Issued(1, "return") = 1
    /\ Issued(2, "idle_query") = 1

\* the process has ended: main() returned, or left by an uncaught exception
Terminated == pc \in {"done", "uncaught"}

\* C8 as stated (clean shutdown): once an interrupt has been received,
\* wherever the main thread was, the process goes through
\* client.disconnect() and leaves the loop by break; and the loop is left
\* only after an interrupt.
C8_CleanShutdown ==
    /\ intAt # "none" =>
          /\ pc \in {"shutdown", "done"}
          /\ pc = "done" => disconnectCalled
    /\ Terminated => intAt # "none"

\* C9 (unattended operation): the process is terminated only after a
\* shutdown request; as long as none has arrived, main() is in connect, in
\* loop_forever or in the retry wait, and loop_forever's connection is being
\* established, established, or waiting for the transport to reconnect.
C9_Unattended ==
    /\ Terminated => intAt # "none"
    /\ intAt = "none" =>
          /\ pc \in {"connect", "loop", "retry_wait"}
          /\ pc = "loop" => conn \in {"awaiting_connack", "connected", "lost"}
          /\ pc # "loop" => conn = "closed"

\* after a failed power query, a failed mutating call and a dropped
\* connection, with no interrupt, the process is still in loop_forever
C9_Witness ==
    /\ intAt = "none" /\ pc = "loop"
    /\ conn = "lost"
    /\ PowerKnown /\ PowerQueryFailed /\ ev.warned

\* C10 (initial-connect retry): a failed connect leaves the session
\* disconnected and in the 10-second wait; the next connect attempt starts
\* only when 10 seconds have been waited; and unless a shutdown request
\* arrives, the wait is always followed by another connect attempt.
C10_ConnectRetry ==
    /\ [](pc = "retry_wait" => (attempt = "failed" /\ conn = "closed"))
    /\ []((pc = "connect" /\ attempt = "failed") => slept = 10)
    /\ (pc = "retry_wait") ~> (pc = "connect" \/ intAt # "none")

\* the second connect attempt, after a failed one and a full wait
C10_Witness ==
    pc = "connect" /\ attempt = "failed" /\ slept = 10 /\ intAt = "none"


\* the external calls of a wake evaluation
ProbeCalls == {"idle_query", "power_query", "reset", "force_on", "set_active"}

\* C11 as stated (cooperative cancellation): a termination request is never
\* acted on while a probe call of a wake evaluation is in flight, and every
\* evaluation that has started has returned when shutdown proceeds.
C11_AsStated ==
    intAt # "none" =>
        /\ intAt \notin ProbeCalls
        /\ calls # <<>> => calls[Len(calls)].op = "return"

\* C11 amended (preemptive cancellation): a termination request is acted on
\* wherever the main thread is, also while a probe call of a wake evaluation
\* is in flight: the evaluation is abandoned at that call, which stays the
\* last entry of the call log, nothing more is issued or decided for any
\* message, and main() goes straight to its shutdown (or, from the retry
\* wait, out by the uncaught exception).
C11_Preemptive ==
    /\ [](intAt # "none" =>
             /\ hpc = "none"
             /\ pc \in {"shutdown", "done", "uncaught"})
    /\ [](intAt \in ProbeCalls =>
             /\ calls # <<>>
             /\ calls[Len(calls)] = [msg |-> ev.id, op |-> intAt])
    /\ [][intAt # "none" => (calls' = calls /\ ev' = ev /\ hpc' = hpc)]_vars

\* the interrupt arrived during the power query; the evaluation stopped
\* there and main() disconnected and left
C11_Witness ==
    /\ intAt = "power_query" /\ pc = "done" /\ disconnectCalled
    /\ calls[Len(calls)].op = "power_query"
    /\ ev.action = "None"


\* C12 (subscribe on connect): whenever the session is Connected, the
\* subscribe of that connection has been issued, on the first connect as on
\* every reconnect; a connection that is closed, waiting for its CONNACK,
\* refused or lost has none; and on_message is called, and a wake evaluation
\* runs, only on a connection whose subscribe was issued.
C12_SubscribeOnConnect ==
    /\ [](conn = "connected" => subscribed)
    /\ [](conn \in {"closed", "awaiting_connack", "lost"} => ~subscribed)
    /\ []((pc = "loop" /\ (hpc # "none" \/ inbox # <<>>)) =>
             (conn = "connected" /\ subscribed))
    /\ [][ev'.id # ev.id => (conn = "connected" /\ subscribed)]_vars

\* message 1 went with a dropped connection; after the transport's
\* reconnect the topic was subscribed again and message 2 has arrived
C12_Witness ==
    /\ conn = "connected" /\ subscribed
    /\ ev.id = 0
    /\ Len(inbox) = 1 /\ inbox[1].id = 2


\* where operation o of message m stands in the call log (0: not issued)
PosOf(m, o) ==
    IF Issued(m, o) = 0 THEN 0
    ELSE CHOOSE i \in 1..Len(calls) : calls[i] = [msg |-> m, op |-> o]

\* the force-on call of message m is over: it returned or raised, and it
\* is not the call an interrupt ended
ForceOnOver(m) ==
    ~(ev.id = m /\ (hpc = "force_on" \/ intAt = "force_on"))

\* C13 as stated (wake sequence per variant): under Variant A every wake
\* issues one force-display-on and then, whenever that call is no longer in
\* flight, has issued exactly one idle-reset after it; under Variant B a
\* wake issues exactly one set-active(false) and no idle-reset.
C13_AsStated ==
    \A m \in 1..delivered :
        /\ Issued(m, "set_active") = 1 =>
              (SESSION_TYPE = "wayland" /\ Issued(m, "reset") = 0)
        /\ (Issued(m, "force_on") = 1 /\ ~(ev.id = m /\ hpc = "force_on")) =>
              /\ SESSION_TYPE # "wayland"
              /\ Issued(m, "reset") = 1
              /\ PosOf(m, "force_on") < PosOf(m, "reset")

\* C13 amended (wake sequence per variant): a wake under Variant A (any
\* session type but "wayland") issues one force-display-on and then, once
\* that call has returned or raised, exactly one idle-reset, after it in the
\* log, and no set-active; only a termination request arriving during the
\* force-on call leaves the wake without its idle-reset.  A wake under
\* Variant B issues exactly one set-active(false) and neither a force-on nor
\* an idle-reset.
C13_WakeSequence ==
    /\ \A i \in 1..Len(calls) :
          LET m == calls[i].msg IN
          /\ calls[i].op = "set_active" =>
                /\ SESSION_TYPE = "wayland"
                /\ \A j \in 1..Len(calls) :
                      (j # i /\ calls[j].msg = m) =>
                          calls[j].op \notin {"set_active", "force_on", "reset"}
          /\ calls[i].op = "force_on" =>
                /\ SESSION_TYPE # "wayland"
                /\ \A j \in 1..Len(calls) :
                      (j # i /\ calls[j].msg = m) =>
                          /\ calls[j].op \notin {"set_active", "force_on"}
                          /\ calls[j].op = "reset" => j > i
                /\ Issued(m, "reset") = IF ForceOnOver(m) THEN 1 ELSE 0
    /\ ev.action = "Wake" =>
          IF SESSION_TYPE = "wayland"
          THEN Issued(ev.id, "set_active") = 1
          ELSE Issued(ev.id, "force_on") = 1

\* Variant A: the force-on raised (its warning was logged) and the
\* idle-reset was issued all the same, and is in flight
C13_Witness ==
    /\ SESSION_TYPE = "x11" /\ ev.action = "Wake"
    /\ hpc = "reset" /\ ev.warned
    /\ \E i \in 1..(Len(calls) - 1) :
          /\ calls[i] = [msg |-> ev.id, op |-> "force_on"]
          /\ calls[i + 1] = [msg |-> ev.id, op |-> "reset"]

\* warnings logged for the event under evaluation
WarningsLogged == ev.warnings

\* C14 (best-effort mutating actions): no mutating operation is issued twice
\* for one message, and an event logs at most one warning per mutating
\* operation it issued; the step in which a reset or wake fails logs its
\* warning and leaves the session as it was, in loop_forever, connected and
\* subscribed, with the waiting messages untouched, the evaluation going on
\* to what follows the failed call; and the message handled after a failure
\* starts from nothing: no observation, no decision and no warning carried
\* over, its idle query issued if and only if it is a wake.
C14_BestEffort ==
    /\ [](\A m \in 1..delivered :
             \A o \in {"reset", "force_on", "set_active"} : Issued(m, o) <= 1)
    /\ [](/\ WarningsLogged <= Issued(ev.id, "reset") + WakesIssued(ev.id)
          /\ ev.warned <=> WarningsLogged > 0)
    /\ [][WarningsLogged' > WarningsLogged =>
             /\ WarningsLogged' = WarningsLogged + 1
             /\ pc = "loop" /\ pc' = "loop"
             /\ conn = "connected" /\ conn' = "connected"
             /\ subscribed /\ subscribed'
             /\ inbox' = inbox
             /\ attempt' = attempt /\ intAt' = "none"
             /\ hpc' = (IF hpc = "force_on" THEN "reset" ELSE "none")]_vars
    /\ [][(ev.warned /\ ev'.id # ev.id) =>
             /\ ev' = [NoEvent EXCEPT !.id = ev'.id, !.payload = ev'.payload]
             /\ (hpc' = "idle_query") <=> IsPaddedWake(ev'.payload)]_vars

\* both mutating calls of an X11 wake failed; handle_wake has returned, and
\* the session is as it was, the next message waiting to be read
C14_Witness ==
    /\ WarningsLogged = 2 /\ hpc = "none"
    /\ Issued(ev.id, "force_on") = 1 /\ Issued(ev.id, "reset") = 1
    /\ pc = "loop" /\ conn = "connected" /\ subscribed
    /\ inbox # <<>> /\ intAt = "none"


\* the action handle_wake has chosen so far, from the observations held in
\* ev and the threshold alone
Decision ==
    IF ~IdleKnown THEN "None"
    ELSE IF ev.idle < active_threshold THEN "Ignore"
    ELSE IF ~PowerKnown THEN "None"
    ELSE IF ev.off THEN "Wake"
    ELSE "ResetIdleTimer"

\* C15 (no caching of display state): every matched wake event issues its
\* own idle query; an observation held for an event was obtained by a query
\* issued for that event; the action of an event is determined by those
\* observations and active_threshold; and when the next event begins, no
\* observation and no decision of the previous one is kept.
C15_NoCaching ==
    /\ [](/\ (EventSeen /\ PayloadIsWake(ev.payload)) =>
                Issued(ev.id, "idle_query") = 1
          /\ IdleKnown => Issued(ev.id, "idle_query") = 1
          /\ PowerKnown => Issued(ev.id, "power_query") = 1
          /\ ev.action = Decision)
    /\ [][ev'.id # ev.id =>
            ev' = [NoEvent EXCEPT !.id = ev'.id, !.payload = ev'.payload]]_vars

\* the first event reset the idle timer; the second, with its own idle
\* query, was ignored
C15_Witness ==
    /\ ev.id = 2 /\ Issued(1, "reset") = 1
    /\ Issued(2, "idle_query") = 1 /\ IdleKnown
    /\ ev.action = "Ignore"


\* the connection is up, or coming up
Established == conn \in {"awaiting_connack", "connected"}

\* C17 (mid-session disconnect is not re-driven): the step on which an
\* established connection drops leaves main() inside loop_forever and
\* changes neither the configuration, the session type, the retry wait, the
\* record of connect attempts nor the evaluation state; while the connection
\* is lost the outer loop stays in loop_forever unless the operator
\* interrupted it; the connection comes back only by the transport's own
\* reconnect inside loop_forever; and once the first connect succeeded the
\* outer loop neither connects nor waits again.
C17_NotRedriven ==
    /\ [][(Established /\ conn' = "lost") =>
            /\ pc = "loop"
            /\ UNCHANGED <<pc, attempt, slept, config, SESSION_TYPE,
                           disconnectCalled, hpc, ev, calls, intAt, delivered>>]_vars
    /\ [](conn = "lost" =>
            /\ attempt = "ok"
            /\ pc \in {"loop", "shutdown"}
            /\ pc = "shutdown" => intAt # "none")
    /\ [][(conn = "lost" /\ conn' # "lost") =>
            \/ /\ conn' = "awaiting_connack"
               /\ pc = "loop"
               /\ UNCHANGED <<pc, attempt, slept>>
            \/ /\ pc = "shutdown"
               /\ conn' = "closed"]_vars
    /\ [](attempt = "ok" => pc \notin {"connect", "retry_wait"})

\* a session that had delivered a message lost its connection, and main() is
\* still inside loop_forever
C17_Witness ==
    /\ conn = "lost" /\ ~subscribed
    /\ delivered >= 1 /\ ev.id >= 1
    /\ pc = "loop" /\ attempt = "ok" /\ slept = 0
    /\ intAt = "none"


\* the entries of the call log that belong to message m, in order
CallsOf(m) == SelectSeq(calls, LAMBDA c : c.msg = m)

\* the operations that change the display state
Mutators == {"reset", "force_on", "set_active"}

\* entry i of the call log begins the entries of a new message
FirstOfMessage(i) == i = 1 \/ calls[i - 1].msg < calls[i].msg

\* C18 (probe call ordering): the call log never goes back to an earlier
\* message; the first entry of every message is its idle query and no later
\* entry is one, so the idle query of an evaluation is issued once and
\* first; a power query stands directly after the idle query of its
\* message, so it is issued at most once, and for the event under
\* evaluation that idle query returned a value >= active_threshold; a
\* mutating operation has the power query of its message before it, and for
\* the event under evaluation that query has returned; and an ignored event
\* has issued its idle query and nothing else.
C18_ProbeOrdering ==
    /\ \A i \in 1..Len(calls) :
          LET m == calls[i].msg
              o == calls[i].op IN
          /\ i > 1 => calls[i - 1].msg <= m
          /\ o = "idle_query" <=> FirstOfMessage(i)
          /\ o = "power_query" =>
                /\ i > 1 /\ calls[i - 1] = Call(m, "idle_query")
                /\ m = ev.id => (IdleKnown /\ ev.idle >= active_threshold)
          /\ o \in Mutators =>
                /\ \E j \in 1..(i - 1) : calls[j] = Call(m, "power_query")
                /\ m = ev.id => PowerKnown
    /\ (EventSeen /\ ev.action = "Ignore") =>
          /\ Len(calls) >= 2
          /\ calls[Len(calls) - 1] = Call(ev.id, "idle_query")
          /\ calls[Len(calls)] = Call(ev.id, "return")
          /\ Issued(ev.id, "power_query") = 0

\* a complete X11 wake: idle query, power query, force-on, reset, in that
\* order, and nothing failed
C18_Witness ==
    /\ EventSeen /\ hpc = "none" /\ ~ev.warned
    /\ CallsOf(ev.id) = <<Call(ev.id, "idle_query"), Call(ev.id, "power_query"),
                          Call(ev.id, "force_on"), Call(ev.id, "reset"),
                          Call(ev.id, "return")>>


\* the variant the session type selects: B for "wayland", A for anything else
VariantFor(t) == IF t = "wayland" THEN "wayland" ELSE "x11"

\* C19 (backend fixed for the run): the session type is what the environment
\* held at startup ("x11" when the variable was unset) and never changes;
\* every probe operation is dispatched to the variant it selects, Variant B
\* exactly when it is "wayland"; the operation in flight belongs to that
\* variant; and once an operation has been dispatched, every later one of
\* the run goes to the same variant.
C19_BackendFixed ==
    /\ [](/\ SESSION_TYPE = (IF XDG_SESSION_TYPE = "unset" THEN "x11"
                              ELSE XDG_SESSION_TYPE)
          /\ backend # "none" => backend = VariantFor(SESSION_TYPE)
          /\ backend = "wayland" <=> (backend # "none" /\ SESSION_TYPE = "wayland")
          /\ backend = "none" <=> calls = <<>>
          /\ hpc = "set_active" => SESSION_TYPE = "wayland"
          /\ hpc = "force_on" => SESSION_TYPE # "wayland")
    /\ [][/\ SESSION_TYPE' = SESSION_TYPE
          /\ XDG_SESSION_TYPE' = XDG_SESSION_TYPE
          /\ backend # "none" => backend' = backend]_vars

\* under an unrecognised session type both events of a run, a wake and a
\* silent reset, went through Variant A
C19_Witness ==
    /\ SESSION_TYPE = "tty" /\ backend = "x11"
    /\ Issued(1, "idle_query") = 1 /\ Issued(1, "power_query") = 1
    /\ Issued(1, "force_on") = 1
    /\ ev.id = 2 /\ ev.action = "ResetIdleTimer" /\ Issued(2, "reset") = 1
    /\ hpc = "none"

=============================================================================
